---------------------------- MODULE Spec2Model ----------------------------
(***************************************************************************)
(* A model of the string-queue registry of strqueue.cpp: a process-wide    *)
(* map from unsigned long handles to deques of strings, an allocation      *)
(* counter, and the eight operations of namespace cxx.                     *)
(*                                                                         *)
(* A const char* argument is modelled by the bytes it points to, up to and *)
(* including the terminating 0; NULL points to no bytes.  A std::string is *)
(* the sequence of its bytes without terminator.  A deque iterator is its  *)
(* offset from begin().                                                    *)
(***************************************************************************)
EXTENDS Integers, Sequences, FiniteSets, TLC

(* numeric_limits<unsigned long>::max(), scaled down so that the counter   *)
(* reaches it: handles and the counter live in 0..ULONG_MAX and cnt++      *)
(* wraps modulo ULONG_MAX + 1.                                             *)
ULONG_MAX == 2

(* Inputs are enumerated so that the registry never holds more than        *)
(* MaxElems strings in total.                                              *)
MaxElems == 3

Handles == 0..ULONG_MAX

Positions == 0..MaxElems

NULL == <<>>

(* "a" and "b" *)
CStrings == {<<97, 0>>, <<98, 0>>}

StrArgs == CStrings \cup {NULL}

VARIABLES
    ndebug,       \* the build: TRUE iff NDEBUG is defined (debug = false)
    cnt,          \* get_cnt()::cnt
    queues,       \* get_queues()::queues
    empty_queue,  \* get_empty_queue()::empty_queue
    aborted,      \* the process was terminated by a failed assert
    last,         \* the last call: the operation, its handle argument,
                  \* whether it ran past its early return, and what it returned
    issued,       \* history: the handles strqueue_new has returned
    net           \* history: per live handle, the accepted inserts minus the
                  \* accepted removes since its creation or last clear

vars == <<ndebug, cnt, queues, empty_queue, aborted, last, issued, net>>

-----------------------------------------------------------------------------
(* Library pieces the operations use. *)

\* std::string::operator=(const char*): the bytes before the first 0.
RECURSIVE string_assign(_)
string_assign(str) ==
    IF Head(str) = 0 THEN <<>> ELSE <<Head(str)>> \o string_assign(Tail(str))

\* std::string::c_str(): the bytes followed by a terminating 0.
c_str(s) == s \o <<0>>

\* deque::insert(it, s)
deque_insert(queue, it, s) ==
    SubSeq(queue, 1, it) \o <<s>> \o SubSeq(queue, it + 1, Len(queue))

\* deque::erase(it)
deque_erase(queue, it) ==
    SubSeq(queue, 1, it) \o SubSeq(queue, it + 2, Len(queue))

\* unordered_map::find(id) != end()
map_contains(qs, id) == id \in DOMAIN qs

\* unordered_map::erase(find(id))
map_erase(qs, id) == [h \in DOMAIN qs \ {id} |-> qs[h]]

\* unordered_map::operator[](id) = q, and the assignment through a reference
\* to a mapped deque
map_put(qs, id, q) ==
    [h \in DOMAIN qs \cup {id} |-> IF h = id THEN q ELSE qs[h]]

-----------------------------------------------------------------------------
(* deque_get_iterator_at: walk position steps from begin(). *)

RECURSIVE iterator_loop(_, _, _)
iterator_loop(index, it, position) ==
    IF index < position
    THEN iterator_loop(index + 1, it + 1, position)
    ELSE it

deque_get_iterator_at_begin(queue, position) == iterator_loop(0, 0, 0)

deque_get_iterator_at(queue, position) == iterator_loop(0, 0, position)

-----------------------------------------------------------------------------
(* What each operation computes, as a function of the registry it finds.   *)
(* qs is the map, eq the shared empty deque.                               *)

\* strqueue_new: assert(cnt < numeric_limits<unsigned long>::max()).  The
\* assert macro expands to nothing when NDEBUG is defined.
new_assert_fails(nd, c) == ~nd /\ ~(c < ULONG_MAX)

\* strqueue_new: queues[cnt] = deque<string>()
new_queues(qs, c) == map_put(qs, c, <<>>)

\* strqueue_new: return cnt++ (the value returned)
new_ret(c) == c

\* strqueue_new: return cnt++ (the counter afterwards, unsigned arithmetic)
new_cnt(c) == (c + 1) % (ULONG_MAX + 1)

delete_queues_all(qs, id) ==
    IF ~map_contains(qs, id) THEN qs ELSE [h \in {} |-> <<>>]

\* strqueue_delete
delete_queues(qs, id) ==
    IF ~map_contains(qs, id) THEN qs ELSE map_erase(qs, id)

size_ret_of_map(qs, id) ==
    IF ~map_contains(qs, id) THEN 0 ELSE Cardinality(DOMAIN qs)

\* strqueue_size
size_ret(qs, id) ==
    IF ~map_contains(qs, id) THEN 0 ELSE Len(qs[id])

\* strqueue_insert_at: the early return
insert_at_rejected(qs, id, str) == ~map_contains(qs, id) \/ str = NULL

insert_at_queues_begin(qs, id, position, str) ==
    IF insert_at_rejected(qs, id, str)
    THEN qs
    ELSE LET queue == qs[id]
             s == string_assign(str)
         IN  map_put(qs, id,
                 IF Len(queue) <= position
                 THEN Append(queue, s)
                 ELSE deque_insert(queue, 0, s))

insert_at_queues_subscript(qs, id, position, str) ==
    IF str = NULL
    THEN qs
    ELSE LET queue == IF map_contains(qs, id) THEN qs[id] ELSE <<>>
             s == string_assign(str)
         IN  map_put(qs, id,
                 IF Len(queue) <= position
                 THEN Append(queue, s)
                 ELSE deque_insert(queue,
                          deque_get_iterator_at(queue, position), s))

\* strqueue_insert_at
insert_at_queues(qs, id, position, str) ==
    IF insert_at_rejected(qs, id, str)
    THEN qs
    ELSE LET queue == qs[id]
             s == string_assign(str)
         IN  map_put(qs, id,
                 IF Len(queue) <= position
                 THEN Append(queue, s)
                 ELSE deque_insert(queue,
                          deque_get_iterator_at(queue, position), s))

\* strqueue_remove_at, strqueue_get_at: the deque the reference binds to
queue_or_empty(qs, eq, id) == IF ~map_contains(qs, id) THEN eq ELSE qs[id]

\* strqueue_remove_at: the early return
remove_at_rejected(qs, eq, id, position) ==
    ~map_contains(qs, id) \/ Len(queue_or_empty(qs, eq, id)) <= position

remove_at_queues_pop_back(qs, eq, id, position) ==
    IF remove_at_rejected(qs, eq, id, position)
    THEN qs
    ELSE LET queue == queue_or_empty(qs, eq, id)
         IN  map_put(qs, id, SubSeq(queue, 1, Len(queue) - 1))

remove_at_queues_clamped(qs, eq, id, position) ==
    IF ~map_contains(qs, id) \/ Len(qs[id]) = 0
    THEN qs
    ELSE LET queue == qs[id]
             p == IF Len(queue) <= position THEN Len(queue) - 1 ELSE position
         IN  map_put(qs, id,
                 deque_erase(queue, deque_get_iterator_at(queue, p)))

remove_at_queues_erase_empty(qs, eq, id, position) ==
    IF remove_at_rejected(qs, eq, id, position)
    THEN qs
    ELSE LET queue == queue_or_empty(qs, eq, id)
             rest == deque_erase(queue, deque_get_iterator_at(queue, position))
         IN  IF rest = <<>> THEN map_erase(qs, id) ELSE map_put(qs, id, rest)

\* strqueue_remove_at
remove_at_queues(qs, eq, id, position) ==
    IF remove_at_rejected(qs, eq, id, position)
    THEN qs
    ELSE LET queue == queue_or_empty(qs, eq, id)
         IN  map_put(qs, id,
                 deque_erase(queue, deque_get_iterator_at(queue, position)))

\* strqueue_get_at: the early return
get_at_rejected(qs, eq, id, position) ==
    ~map_contains(qs, id) \/ Len(queue_or_empty(qs, eq, id)) <= position

\* strqueue_get_at
get_at_ret(qs, eq, id, position) ==
    IF get_at_rejected(qs, eq, id, position)
    THEN NULL
    ELSE LET queue == queue_or_empty(qs, eq, id)
         IN  c_str(queue[deque_get_iterator_at(queue, position) + 1])

clear_queues_erase(qs, id) ==
    IF ~map_contains(qs, id) THEN qs ELSE map_erase(qs, id)

\* strqueue_clear
clear_queues(qs, id) ==
    IF ~map_contains(qs, id) THEN qs ELSE map_put(qs, id, <<>>)

-----------------------------------------------------------------------------
(* Comparison: operator< of std::string and of deque<string>.              *)

\* basic_string::compare(a, b) < 0: the first differing byte decides, as
\* unsigned char; otherwise the shorter string is less.
RECURSIVE string_less(_, _)
string_less(a, b) ==
    IF a = <<>> \/ b = <<>>
    THEN a = <<>> /\ b # <<>>
    ELSE IF Head(a) # Head(b)
         THEN Head(a) < Head(b)
         ELSE string_less(Tail(a), Tail(b))

\* std::lexicographical_compare over the two deques
RECURSIVE deque_less(_, _)
deque_less(q1, q2) ==
    IF q1 = <<>> \/ q2 = <<>>
    THEN q1 = <<>> /\ q2 # <<>>
    ELSE IF string_less(Head(q1), Head(q2))
         THEN TRUE
         ELSE IF string_less(Head(q2), Head(q1))
              THEN FALSE
              ELSE deque_less(Tail(q1), Tail(q2))

comp_ret_less_equal(qs, eq, id1, id2) ==
    LET q1 == queue_or_empty(qs, eq, id1)
        q2 == queue_or_empty(qs, eq, id2)
    IN  IF ~deque_less(q2, q1)
        THEN -1
        ELSE IF deque_less(q2, q1) THEN 1 ELSE 0

comp_ret_no_greater(qs, eq, id1, id2) ==
    LET q1 == queue_or_empty(qs, eq, id1)
        q2 == queue_or_empty(qs, eq, id2)
    IN  IF deque_less(q1, q2) THEN -1 ELSE 0

comp_ret_not_equal(qs, eq, id1, id2) ==
    LET q1 == queue_or_empty(qs, eq, id1)
        q2 == queue_or_empty(qs, eq, id2)
    IN  IF q1 # q2
        THEN -1
        ELSE IF deque_less(q2, q1) THEN 1 ELSE 0

comp_ret_missing_less(qs, eq, id1, id2) ==
    LET q1 == queue_or_empty(qs, eq, id1)
        q2 == queue_or_empty(qs, eq, id2)
    IN  IF ~map_contains(qs, id1) /\ map_contains(qs, id2)
        THEN -1
        ELSE IF map_contains(qs, id1) /\ ~map_contains(qs, id2)
             THEN 1
             ELSE IF deque_less(q1, q2)
                  THEN -1
                  ELSE IF deque_less(q2, q1) THEN 1 ELSE 0

comp_ret_size_first(qs, eq, id1, id2) ==
    LET q1 == queue_or_empty(qs, eq, id1)
        q2 == queue_or_empty(qs, eq, id2)
    IN  IF Len(q1) # Len(q2)
        THEN (IF Len(q1) < Len(q2) THEN -1 ELSE 1)
        ELSE IF deque_less(q1, q2)
             THEN -1
             ELSE IF deque_less(q2, q1) THEN 1 ELSE 0

\* strqueue_comp
comp_ret(qs, eq, id1, id2) ==
    LET q1 == queue_or_empty(qs, eq, id1)
        q2 == queue_or_empty(qs, eq, id2)
    IN  IF deque_less(q1, q2)
        THEN -1
        ELSE IF deque_less(q2, q1) THEN 1 ELSE 0

-----------------------------------------------------------------------------
(* The state machine.  Each action is one call of an operation of          *)
(* namespace cxx; a call made after the process was aborted does not       *)
(* happen.                                                                 *)

\* The number of strings the queues of handles 0..h hold.
RECURSIVE ElemsUpTo(_, _)
ElemsUpTo(qs, h) ==
    IF h < 0
    THEN 0
    ELSE (IF h \in DOMAIN qs THEN Len(qs[h]) ELSE 0) + ElemsUpTo(qs, h - 1)

TotalElems(qs) == ElemsUpTo(qs, ULONG_MAX)

\* The record of a call: id and position are its arguments (0 where it has
\* none), before the size its queue had when it was entered (0 when the
\* handle was not live), ok whether it ran past its early return, ret the
\* value of an integer return and cstr the bytes a returned const char*
\* points to; a void function leaves ret and cstr at 0 and NULL.
Call(op, id, position, before, ok, ret, cstr) ==
    [op |-> op, id |-> id, position |-> position, before |-> before,
     ok |-> ok, ret |-> ret, cstr |-> cstr]

Before(id) == IF id \in DOMAIN queues THEN Len(queues[id]) ELSE 0

Init ==
    /\ ndebug \in BOOLEAN
    /\ cnt = 0
    /\ queues = [h \in {} |-> <<>>]
    /\ empty_queue = <<>>
    /\ aborted = FALSE
    /\ last = Call("init", 0, 0, 0, TRUE, 0, NULL)
    /\ issued = {}
    /\ net = [h \in Handles |-> 0]

strqueue_new ==
    /\ ~aborted
    /\ IF new_assert_fails(ndebug, cnt)
       THEN /\ aborted' = TRUE
            /\ last' = Call("new", 0, 0, 0, FALSE, 0, NULL)
            /\ UNCHANGED <<cnt, queues, issued, net>>
       ELSE /\ queues' = new_queues(queues, cnt)
            /\ cnt' = new_cnt(cnt)
            /\ issued' = issued \cup {new_ret(cnt)}
            /\ net' = [net EXCEPT ![cnt] = 0]
            /\ last' = Call("new", 0, 0, 0, TRUE, new_ret(cnt), NULL)
            /\ UNCHANGED aborted
    /\ UNCHANGED <<ndebug, empty_queue>>

strqueue_delete(id) ==
    /\ ~aborted
    /\ queues' = delete_queues(queues, id)
    /\ net' = IF map_contains(queues, id) THEN [net EXCEPT ![id] = 0] ELSE net
    /\ last' = Call("delete", id, 0, Before(id), map_contains(queues, id), 0, NULL)
    /\ UNCHANGED <<ndebug, cnt, empty_queue, aborted, issued>>

strqueue_size_subscript(id) ==
    /\ ~aborted
    /\ queues' = map_put(queues, id, queue_or_empty(queues, <<>>, id))
    /\ last' = Call("size", id, 0, Before(id), map_contains(queues, id),
                    size_ret(queues, id), NULL)
    /\ UNCHANGED <<ndebug, cnt, empty_queue, aborted, issued, net>>

strqueue_size(id) ==
    /\ ~aborted
    /\ last' = Call("size", id, 0, Before(id), map_contains(queues, id),
                    size_ret(queues, id), NULL)
    /\ UNCHANGED <<ndebug, cnt, queues, empty_queue, aborted, issued, net>>

strqueue_insert_at(id, position, str) ==
    /\ ~aborted
    /\ insert_at_rejected(queues, id, str) \/ TotalElems(queues) < MaxElems
    /\ queues' = insert_at_queues(queues, id, position, str)
    /\ net' = IF insert_at_rejected(queues, id, str)
              THEN net
              ELSE [net EXCEPT ![id] = @ + 1]
    /\ last' = Call("insert_at", id, position, Before(id),
                    ~insert_at_rejected(queues, id, str), 0, NULL)
    /\ UNCHANGED <<ndebug, cnt, empty_queue, aborted, issued>>

strqueue_remove_at(id, position) ==
    /\ ~aborted
    /\ queues' = remove_at_queues(queues, empty_queue, id, position)
    /\ net' = IF remove_at_rejected(queues, empty_queue, id, position)
              THEN net
              ELSE [net EXCEPT ![id] = @ - 1]
    /\ last' = Call("remove_at", id, position, Before(id),
                    ~remove_at_rejected(queues, empty_queue, id, position),
                    0, NULL)
    /\ UNCHANGED <<ndebug, cnt, empty_queue, aborted, issued>>

strqueue_get_at(id, position) ==
    /\ ~aborted
    /\ last' = Call("get_at", id, position, Before(id),
                    ~get_at_rejected(queues, empty_queue, id, position), 0,
                    get_at_ret(queues, empty_queue, id, position))
    /\ UNCHANGED <<ndebug, cnt, queues, empty_queue, aborted, issued, net>>

strqueue_clear(id) ==
    /\ ~aborted
    /\ queues' = clear_queues(queues, id)
    /\ net' = IF map_contains(queues, id) THEN [net EXCEPT ![id] = 0] ELSE net
    /\ last' = Call("clear", id, 0, Before(id), map_contains(queues, id), 0, NULL)
    /\ UNCHANGED <<ndebug, cnt, empty_queue, aborted, issued>>

strqueue_comp(id1, id2) ==
    /\ ~aborted
    /\ last' = Call("comp", id1, 0, Before(id1), TRUE,
                    comp_ret(queues, empty_queue, id1, id2), NULL)
    /\ UNCHANGED <<ndebug, cnt, queues, empty_queue, aborted, issued, net>>

Next ==
    \/ strqueue_new
    \/ \E id \in Handles : strqueue_delete(id)
    \/ \E id \in Handles : strqueue_size(id)
    \/ \E id \in Handles, position \in Positions, str \in StrArgs :
           strqueue_insert_at(id, position, str)
    \/ \E id \in Handles, position \in Positions :
           strqueue_remove_at(id, position)
    \/ \E id \in Handles, position \in Positions :
           strqueue_get_at(id, position)
    \/ \E id \in Handles : strqueue_clear(id)
    \/ \E id1 \in Handles, id2 \in Handles : strqueue_comp(id1, id2)

Spec == Init /\ [][Next]_vars

-----------------------------------------------------------------------------
(* strqueue_comp on its own: the registry is any one that strqueue_new,    *)
(* strqueue_delete and strqueue_insert_at can build out of the strings     *)
(* "", "a", "ab" and "b", holding up to MaxElems + 1 of them, and the only *)
(* calls are comparisons.  Every handle may be live; the greatest one is   *)
(* live only in the build that lets strqueue_new run with the counter at   *)
(* the maximum, and the counter has wrapped to 0 there.                    *)

CompStrings == {<<>>, <<97>>, <<97, 98>>, <<98>>}

CompQueues == UNION {[1..k -> CompStrings] : k \in 0..(MaxElems + 1)}

\* The registries over the handles 0..h that hold at most n strings.
RECURSIVE CompRegistriesUpTo(_, _)
CompRegistriesUpTo(h, n) ==
    IF h < 0
    THEN {[g \in {} |-> <<>>]}
    ELSE UNION {{qs} \cup {map_put(qs, h, q) :
                               q \in {x \in CompQueues :
                                          Len(x) + TotalElems(qs) <= n}} :
                   qs \in CompRegistriesUpTo(h - 1, n)}

CompRegistries == CompRegistriesUpTo(ULONG_MAX, MaxElems + 1)

InitComp ==
    /\ ndebug \in BOOLEAN
    /\ queues \in CompRegistries
    /\ map_contains(queues, ULONG_MAX) => ndebug
    /\ cnt = IF map_contains(queues, ULONG_MAX) THEN new_cnt(ULONG_MAX)
                                                ELSE ULONG_MAX
    /\ empty_queue = <<>>
    /\ aborted = FALSE
    /\ last = Call("init", 0, 0, 0, TRUE, 0, NULL)
    /\ issued = IF map_contains(queues, ULONG_MAX)
                THEN Handles
                ELSE 0..(ULONG_MAX - 1)
    /\ net = [h \in Handles |->
                  IF h \in DOMAIN queues THEN Len(queues[h]) ELSE 0]

NextComp == \E id1 \in Handles, id2 \in Handles : strqueue_comp(id1, id2)

SpecComp == InitComp /\ [][NextComp]_vars

-----------------------------------------------------------------------------
(* Properties of the registry. *)

Live(h) == h \in DOMAIN queues

Registry == <<queues, cnt>>

\* A handle that strqueue_new returned and that is not live: keys leave the
\* map only in strqueue_delete, so these are the deleted handles.
Retired == issued \ DOMAIN queues

\* C1: the handle returned by each strqueue_new call is greater than every
\* handle returned before, and so was never returned before.
C1_HandlesStrictlyIncreasing ==
    [][(last'.op = "new" /\ strqueue_new /\ last'.ok) =>
           /\ last'.ret \notin issued
           /\ \A h \in issued : h < last'.ret]_vars

\* C2: a strqueue_new call entered with the counter at the maximum handle
\* value aborts the process, leaves the counter and the map as they were and
\* returns nothing.
C2_ExhaustionAborts ==
    [][(cnt = ULONG_MAX /\ last'.op = "new" /\ strqueue_new) =>
           /\ aborted'
           /\ ~last'.ok
           /\ cnt' = cnt
           /\ queues' = queues]_vars

\* C3: a deleted handle is never live again; size and get_at on it return
\* what they return for a handle never created, and insert_at, remove_at,
\* clear and delete addressed to it change nothing.
C3_DeletedStaysDeleted ==
    [][\A h \in Retired :
           /\ ~Live(h)'
           /\ size_ret(queues, h) = 0
           /\ \A p \in Positions : get_at_ret(queues, empty_queue, h, p) = NULL
           /\ (last'.id = h /\ last'.op \in {"insert_at", "remove_at",
                                             "clear", "delete"}) =>
                  Registry' = Registry]_vars

\* C4: an accepted insert_at(id, position, str) on a queue q of n elements
\* puts str at k = min(position, n): the size becomes n + 1, get_at(id, k)
\* returns str, the elements before k stay and those from k on move up by
\* one; for position >= n the value lands at n.
C4_InsertAtPlacesValue ==
    [][last'.op = "insert_at" =>
           \A str \in CStrings :
               LET id == last'.id
                   position == last'.position
               IN  (Live(id) /\ strqueue_insert_at(id, position, str)) =>
                       LET q == queues[id]
                           n == Len(q)
                           k == IF position < n THEN position ELSE n
                           r == queues'[id]
                       IN  /\ map_contains(queues', id)
                           /\ size_ret(queues', id) = n + 1
                           /\ get_at_ret(queues', empty_queue', id, k) = str
                           /\ \A i \in 0..(k - 1) : r[i + 1] = q[i + 1]
                           /\ \A i \in k..(n - 1) : r[i + 2] = q[i + 1]
                           /\ position >= n =>
                                  get_at_ret(queues', empty_queue', id, n)
                                      = str]_vars

\* "b" was just inserted at position 1 of the queue ["a", "a"], between
\* its two elements.
C4_Witness ==
    /\ last.op = "insert_at"
    /\ last.ok
    /\ last.position = 1
    /\ last.before = 2
    /\ Live(last.id)
    /\ queues[last.id] = <<<<97>>, <<98>>, <<97>>>>

\* C5: an accepted remove_at(id, position), position < n, takes exactly the
\* element at position out: the size drops by one, the elements before
\* position stay and each element after it moves down by one.
C5_RemoveAtShiftsDown ==
    [][last'.op = "remove_at" =>
           LET id == last'.id
               position == last'.position
           IN  (Live(id) /\ position < Len(queues[id])
                    /\ strqueue_remove_at(id, position)) =>
                   LET q == queues[id]
                       n == Len(q)
                       r == queues'[id]
                   IN  /\ map_contains(queues', id)
                       /\ size_ret(queues', id) = n - 1
                       /\ \A i \in 0..(position - 1) : r[i + 1] = q[i + 1]
                       /\ \A i \in (position + 1)..(n - 1) :
                              r[i] = q[i + 1]]_vars

\* The first of two elements was just removed.
C5_Witness ==
    /\ last.op = "remove_at"
    /\ last.ok
    /\ last.position = 0
    /\ last.before = 2
    /\ Live(last.id)
    /\ Len(queues[last.id]) = 1

\* C6: remove_at on a handle that is not live, or at a position >= the size
\* of a live queue, leaves the map and the counter unchanged.
C6_RemoveAtRejectedNoChange ==
    [][last'.op = "remove_at" =>
           LET id == last'.id
               position == last'.position
           IN  ((~Live(id) \/ position >= Len(queues[id]))
                    /\ strqueue_remove_at(id, position)) =>
                   /\ DOMAIN queues' = DOMAIN queues
                   /\ queues' = queues
                   /\ cnt' = cnt]_vars

\* A remove_at at position = size was just rejected on a live queue that
\* holds an element.
C6_Witness ==
    /\ last.op = "remove_at"
    /\ ~last.ok
    /\ Live(last.id)
    /\ last.position = last.before
    /\ Len(queues[last.id]) >= 1

\* C7: insert_at on a handle that is not live, or with a NULL string, leaves
\* the map and the counter unchanged; a handle that was not live is still not
\* live and its size is still 0.
C7_InsertAtRejectedNoChange ==
    [][last'.op = "insert_at" =>
           \A str \in StrArgs :
               LET id == last'.id
                   position == last'.position
               IN  ((~Live(id) \/ str = NULL)
                        /\ strqueue_insert_at(id, position, str)) =>
                       /\ queues' = queues
                       /\ cnt' = cnt
                       /\ ~Live(id) =>
                              (~map_contains(queues', id) /\ size_ret(queues', id) = 0)]_vars

\* An insert_at was just rejected for a handle that is not live, while
\* another queue is live.
C7_Witness ==
    /\ last.op = "insert_at"
    /\ ~last.ok
    /\ ~Live(last.id)
    /\ DOMAIN queues # {}

\* C8: clear on a live handle leaves it live and empty, so that size returns
\* 0 and get_at(id, 0) returns NULL, and an insert_at with a string that
\* follows is accepted and makes the size 1; clear on a handle that is not
\* live changes nothing.
C8_ClearEmptiesKeepsLive ==
    [][/\ last'.op = "clear" =>
              LET id == last'.id
              IN  /\ (Live(id) /\ strqueue_clear(id)) =>
                         /\ map_contains(queues', id)
                         /\ size_ret(queues', id) = 0
                         /\ get_at_ret(queues', empty_queue', id, 0) = NULL
                  /\ (~Live(id) /\ strqueue_clear(id)) =>
                         Registry' = Registry
       /\ (last.op = "clear" /\ last.ok /\ last'.op = "insert_at"
               /\ last'.id = last.id) =>
              \A str \in CStrings :
                  strqueue_insert_at(last'.id, last'.position, str) =>
                      /\ last'.ok
                      /\ size_ret(queues', last'.id) = 1]_vars

\* A queue that held two elements was just cleared.
C8_Witness ==
    /\ last.op = "clear"
    /\ last.ok
    /\ last.before = 2
    /\ Live(last.id)
    /\ queues[last.id] = <<>>

\* C9: delete on a handle that is not live changes nothing; delete on a live
\* handle removes exactly its entry and leaves every other queue and the
\* counter as they were.
C9_DeleteFrame ==
    [][last'.op = "delete" =>
           LET id == last'.id
           IN  /\ (~Live(id) /\ strqueue_delete(id)) => Registry' = Registry
               /\ (Live(id) /\ strqueue_delete(id)) =>
                      /\ DOMAIN queues' = DOMAIN queues \ {id}
                      /\ \A h \in DOMAIN queues \ {id} :
                             queues'[h] = queues[h]
                      /\ cnt' = cnt]_vars

\* A queue was just deleted while another one, holding an element, stays.
C9_Witness ==
    /\ last.op = "delete"
    /\ last.ok
    /\ ~Live(last.id)
    /\ \E h \in DOMAIN queues : Len(queues[h]) >= 1

\* C10: size returns the number of elements of a live queue, which is the
\* number of accepted inserts minus accepted removes since its creation or
\* last clear and is 0 right after strqueue_new, and returns 0 for a handle
\* that is not live.
C10_SizeCountsElements ==
    /\ \A h \in Handles :
           size_ret(queues, h) = IF Live(h) THEN net[h] ELSE 0
    /\ last.op = "size" =>
           last.ret = IF Live(last.id) THEN net[last.id] ELSE 0
    /\ (last.op = "new" /\ last.ok) => size_ret(queues, last.ret) = 0

\* size just returned 2 for a live queue.
C10_Witness ==
    /\ last.op = "size"
    /\ last.ok
    /\ last.ret = 2

\* The bytes a const char* to the element at position p of q points to.
ElementAt(q, p) == Append(q[p + 1], 0)

\* C11: get_at(h, p) returns the element at position p of the queue of h
\* exactly when h is live and p is below its size, and NULL in every other
\* case; every position below the size of a live queue holds an element.
C11_GetAtReturnsElement ==
    /\ \A h \in Handles, p \in Positions :
           get_at_ret(queues, empty_queue, h, p) =
               IF Live(h) /\ p < Len(queues[h])
               THEN ElementAt(queues[h], p)
               ELSE NULL
    /\ \A h \in DOMAIN queues :
           \A p \in 0..(Len(queues[h]) - 1) :
               /\ get_at_ret(queues, empty_queue, h, p) # NULL
               /\ get_at_ret(queues, empty_queue, h, p) \in CStrings
    /\ last.op = "get_at" =>
           /\ last.ok = (Live(last.id) /\ last.position < Len(queues[last.id]))
           /\ last.cstr = IF Live(last.id) /\ last.position < Len(queues[last.id])
                          THEN ElementAt(queues[last.id], last.position)
                          ELSE NULL

\* get_at just returned the second of two different elements.
C11_Witness ==
    /\ last.op = "get_at"
    /\ last.ok
    /\ last.position = 1
    /\ last.cstr = <<98, 0>>
    /\ queues[last.id] = <<<<97>>, <<98>>>>

\* The sequence a handle stands for in a comparison: its queue, or the
\* empty sequence when it is not live.
QueueOf(h) == IF Live(h) THEN queues[h] ELSE <<>>

\* Lexicographic order of two sequences under the order lt of their
\* elements: they agree up to a position where a is smaller, or a ends
\* there and b goes on.
LexLess(a, b, lt(_, _)) ==
    \E i \in 1..(Len(a) + 1) :
        /\ i - 1 <= Len(b)
        /\ \A j \in 1..(i - 1) : a[j] = b[j]
        /\ \/ i <= Len(a) /\ i <= Len(b) /\ lt(a[i], b[i])
           \/ i = Len(a) + 1 /\ Len(b) > Len(a)

ByteLess(x, y) == x < y

StringOrder(s1, s2) == LexLess(s1, s2, ByteLess)

QueueOrder(q1, q2) == LexLess(q1, q2, StringOrder)

Less == -1

Equal == 0

Greater == 1

\* C12: compare(h1, h2) is the lexicographic order of the two sequences, a
\* handle that is not live standing for the empty one: two handles that are
\* not live are equal, one that is not live is less than a non-empty queue
\* and equal to a live empty queue.
C12_CompIsLexicographic ==
    /\ \A h1 \in Handles, h2 \in Handles :
           LET r == comp_ret(queues, empty_queue, h1, h2)
           IN  /\ r = IF QueueOrder(QueueOf(h1), QueueOf(h2))
                      THEN Less
                      ELSE IF QueueOrder(QueueOf(h2), QueueOf(h1))
                           THEN Greater
                           ELSE Equal
               /\ (r = Equal) = (QueueOf(h1) = QueueOf(h2))
               /\ (~Live(h1) /\ ~Live(h2)) => r = Equal
               /\ (~Live(h1) /\ Live(h2) /\ queues[h2] # <<>>) => r = Less
               /\ (~Live(h1) /\ Live(h2) /\ queues[h2] = <<>>) => r = Equal
    /\ last.op = "comp" =>
           \E h2 \in Handles :
               last.ret = IF QueueOrder(QueueOf(last.id), QueueOf(h2))
                          THEN Less
                          ELSE IF QueueOrder(QueueOf(h2), QueueOf(last.id))
                               THEN Greater
                               ELSE Equal

\* compare just returned less for the queue ["a", "a"] against the queue
\* ["a", "ab"], the only other one: they agree on the first element and the
\* second decides, "a" being a strict prefix of "ab".
C12_Witness ==
    /\ last.op = "comp"
    /\ last.ret = Less
    /\ Live(last.id)
    /\ queues[last.id] = <<<<97>>, <<97>>>>
    /\ \E h2 \in DOMAIN queues :
           /\ queues[h2] = <<<<97>>, <<97, 98>>>>
           /\ \A h \in DOMAIN queues : h \in {last.id, h2}

Comp(h1, h2) == comp_ret(queues, empty_queue, h1, h2)

\* C13: compare(h, h) returns equal for every handle, live, deleted or
\* never created.
C13_CompReflexive == \A h \in Handles : Comp(h, h) = Equal

\* compare just returned equal for a live non-empty queue that no other
\* handle matches, while one handle is deleted and one was never created.
C13_Witness ==
    /\ last.op = "comp"
    /\ last.ret = Equal
    /\ Live(last.id)
    /\ queues[last.id] # <<>>
    /\ \A h \in Handles \ {last.id} : QueueOf(h) # queues[last.id]
    /\ Retired # {}
    /\ Handles \ issued # {}

\* C14: compare is antisymmetric: compare(a, b) is less exactly when
\* compare(b, a) is greater, and equal exactly when compare(b, a) is equal.
C14_CompAntisymmetric ==
    \A a \in Handles, b \in Handles :
        /\ (Comp(a, b) = Less) = (Comp(b, a) = Greater)
        /\ (Comp(a, b) = Equal) = (Comp(b, a) = Equal)

\* compare just returned greater for the queue ["ab"], the other queue
\* being ["a"].
C14_Witness ==
    /\ last.op = "comp"
    /\ last.ret = Greater
    /\ Live(last.id)
    /\ queues[last.id] = <<<<97, 98>>>>
    /\ \E b \in DOMAIN queues : queues[b] = <<<<97>>>> /\ Comp(b, last.id) = Less

\* C15: compare is transitive: if compare(a, b) and compare(b, c) are less
\* then compare(a, c) is less.
C15_CompTransitive ==
    \A a \in Handles, b \in Handles, c \in Handles :
        (Comp(a, b) = Less /\ Comp(b, c) = Less) => Comp(a, c) = Less

\* compare just returned less for the first of three live queues ["a"],
\* ["a", "b"] and ["b"], which are in strictly increasing order: the first
\* is a strict prefix of the second, and the second is below the third, the
\* shorter one, by its first element.
C15_Witness ==
    /\ last.op = "comp"
    /\ last.ret = Less
    /\ \E b \in Handles, c \in Handles :
           /\ Live(last.id) /\ queues[last.id] = <<<<97>>>>
           /\ Live(b) /\ queues[b] = <<<<97>>, <<98>>>>
           /\ Live(c) /\ queues[c] = <<<<98>>>>
           /\ Comp(last.id, b) = Less
           /\ Comp(b, c) = Less
           /\ Comp(last.id, c) = Less

\* C16: size, get_at and compare return for a handle that is not live what
\* they return for a live handle whose queue is empty; the shared empty
\* deque that stands for a missing queue stays empty whatever calls are
\* rejected.
C16_UnknownLooksEmpty ==
    /\ empty_queue = <<>>
    /\ \A u \in Handles \ DOMAIN queues :
           /\ size_ret(queues, u) = 0
           /\ \A p \in Positions : get_at_ret(queues, empty_queue, u, p) = NULL
           /\ \A e \in DOMAIN queues :
                  queues[e] = <<>> =>
                      /\ size_ret(queues, u) = size_ret(queues, e)
                      /\ \A p \in Positions :
                             get_at_ret(queues, empty_queue, u, p)
                                 = get_at_ret(queues, empty_queue, e, p)
                      /\ \A x \in Handles :
                             /\ Comp(u, x) = Comp(e, x)
                             /\ Comp(x, u) = Comp(x, e)
    /\ (last.op \in {"size", "get_at"} /\ ~Live(last.id)) =>
           (last.ret = 0 /\ last.cstr = NULL)

\* remove_at was just rejected for a handle that is not live, while one
\* live queue is empty and another holds an element.
C16_Witness ==
    /\ last.op = "remove_at"
    /\ ~last.ok
    /\ ~Live(last.id)
    /\ \E e \in DOMAIN queues : queues[e] = <<>>
    /\ \E x \in DOMAIN queues : queues[x] # <<>>

\* C17: the build without diagnostics (NDEBUG) and the build with them
\* behave alike: each strqueue_new call ends as it would in the other build,
\* from the same registry, in what it returns, in the registry it leaves and
\* in whether the process is stopped.  (No other operation reads the build.)
C17_BuildsBehaveAlike ==
    [][(last'.op = "new" /\ strqueue_new) =>
           IF new_assert_fails(~ndebug, cnt)
           THEN /\ aborted'
                /\ ~last'.ok
                /\ Registry' = Registry
           ELSE /\ ~aborted'
                /\ last'.ok
                /\ last'.ret = new_ret(cnt)
                /\ queues' = new_queues(queues, cnt)
                /\ cnt' = new_cnt(cnt)]_vars

\* C18: size, get_at and compare leave the map, the counter and the shared
\* empty deque as they were, whatever their arguments, and compare returns
\* less, equal or greater.
C18_QueriesArePure ==
    [][last'.op \in {"size", "get_at", "comp"} =>
           /\ DOMAIN queues' = DOMAIN queues
           /\ queues' = queues
           /\ cnt' = cnt
           /\ empty_queue' = empty_queue
           /\ last'.op = "comp" => last'.ret \in {Less, Equal, Greater}]_vars

\* size was just asked of a handle that is not live, which is still not
\* live, while another queue holds an element.
C18_Witness ==
    /\ last.op = "size"
    /\ ~last.ok
    /\ last.ret = 0
    /\ ~Live(last.id)
    /\ \E h \in DOMAIN queues : queues[h] # <<>>

\* C19: every live handle was returned by strqueue_new and is below the
\* counter; the counter never decreases; strqueue_new returns a handle that
\* is not live and never was.
C19_RegistryInvariant ==
    [][/\ \A h \in DOMAIN queues : h \in issued /\ h < cnt
       /\ \A h \in DOMAIN queues' : h \in issued' /\ h < cnt'
       /\ cnt' >= cnt
       /\ (last'.op = "new" /\ strqueue_new /\ last'.ok) =>
              /\ last'.ret \notin DOMAIN queues
              /\ last'.ret \notin issued]_vars

\* C20: insert_at, remove_at and clear addressed to a handle leave the set
\* of live handles, the counter and every other queue as they were; a
\* handle stops being live only in a delete addressed to it.
C20_MutatorsFrame ==
    [][/\ last'.op \in {"insert_at", "remove_at", "clear"} =>
              /\ DOMAIN queues' = DOMAIN queues
              /\ cnt' = cnt
              /\ \A h \in DOMAIN queues \ {last'.id} : queues'[h] = queues[h]
       /\ \A h \in DOMAIN queues :
              h \notin DOMAIN queues' =>
                  (last'.op = "delete" /\ last'.id = h)]_vars

\* The only element of a queue was just removed; the queue is still live
\* and another queue holds its element.
C20_Witness ==
    /\ last.op = "remove_at"
    /\ last.ok
    /\ last.before = 1
    /\ Live(last.id)
    /\ queues[last.id] = <<>>
    /\ \E h \in DOMAIN queues : queues[h] # <<>>

=============================================================================
